---- MODULE Spec2Model ----
(***************************************************************************)
(* Alert store, telemetry generators and incident pipeline of the          *)
(* platform-engineering MCP demo (metrics_generator.py,                    *)
(* incident_response.py, mcp_client.py, mcp_server.py,                     *)
(* automation_agent.py).                                                   *)
(*                                                                         *)
(* Time is counted in minutes.  Random draws of the generators are inputs  *)
(* of the actions, taken from small sample sets that lie on both sides of  *)
(* every threshold the code compares against.                              *)
(*                                                                         *)
(* Spec      the handlers of metrics_generator.py called one at a time     *)
(* ConcSpec  the two generators called from several threads                *)
(* PipeSpec  runs of the incident pipeline, stage by stage                 *)
(* FairPipeSpec  PipeSpec, where a started run keeps being scheduled       *)
(* ServerSpec  the tools of mcp_server.call_tool that use metrics_history  *)
(* LogSpec   get_cluster_logs called with any arguments                    *)
(* FairSpec  Spec, where get_active_alerts keeps being called              *)
(* FacadeSpec  the tools of mcp_client.call_tool, called one at a time     *)
(* RunbookSpec  execute_runbook through the facade and through the server  *)
(* EvictConcSpec  ConcSpec with a thread inside get_active_alerts          *)
(* AgentSpec  the poll loop of automation_agent.py                         *)
(***************************************************************************)
EXTENDS Integers, Sequences, FiniteSets, TLC

VARIABLES
    now,            \* wall clock, datetime.now(), in minutes
    ACTIVE_ALERTS,  \* metrics_generator.ACTIVE_ALERTS, a list of alert dicts
    nextId,         \* number of uuid4 identifiers handed out so far, plus one
    ret,            \* value returned by the last generator / list call
    pre_alerts,     \* history: ACTIVE_ALERTS as it was when that call began
    tpc,            \* concurrent generators: per thread, position in its handler
    tdraw,          \* concurrent generators: per thread, the values drawn for the resource
    texisting,      \* concurrent generators: per thread, the local existing_alert
    llm,            \* IncidentResponseAgent.llm: TRUE when a ChatOpenAI backend is configured
    ppc,            \* pipeline run: "idle", the stage about to run, or the stage blocked in llm.invoke
    pmode,          \* pipeline run: "sync" (analyze_incident_sync) or "graph" (compiled graph)
    pstate,         \* pipeline run: the IncidentState dict
    pret,           \* value the last pipeline run delivered to its caller
    executed,       \* history: stages entered by the current / last run, in order
    failed_at,      \* history: stage of that run that raised, or "none"
    llm_failed,     \* history: whether an llm.invoke of that run raised
    prev_run,       \* history: input alert and root cause of the run before the current one
    metrics_history,\* mcp_server.metrics_history: the lists "k8s", "api" and "alerts"
    arrivals,       \* history: every entry ever appended to metrics_history, per category
    sret,           \* value the last server tool call returned
    logcall,        \* the last get_cluster_logs call: arguments, lines generated, result
    lpc,            \* concurrent list call: position of the thread inside get_active_alerts
    lkept,          \* concurrent list call: the list the comprehension has built
    cret,           \* value the last mcp_client.call_tool call returned
    apc,            \* automation agent: "off", or the statement of main / handle_alert it is at
    seen,           \* automation agent: the local set seen of main
    loop_alerts,    \* automation agent: the local list alerts of main
    idx,            \* automation agent: position of the for loop in alerts
    handled_alert,  \* automation agent: the alert handle_alert was called with
    trace,          \* history: the tool calls of handle_alert so far, each with its alert id
    polled,         \* history: the alerts as the last poll returned them
    mark            \* history: length of trace when the last poll returned

storeVars == <<now, ACTIVE_ALERTS, nextId, ret, pre_alerts>>
threadVars == <<tpc, tdraw, texisting>>
pipeVars == <<llm, ppc, pmode, pstate, pret, executed, failed_at, llm_failed, prev_run>>
toolVars == <<metrics_history, arrivals, sret, logcall>>
listVars == <<lpc, lkept>>
mainVars == <<apc, seen, loop_alerts, idx, handled_alert, trace, polled, mark>>
agentVars == <<cret, mainVars>>
vars == <<now, ACTIVE_ALERTS, nextId, ret, pre_alerts, tpc, tdraw, texisting,
          llm, ppc, pmode, pstate, pret, executed, failed_at, llm_failed, prev_run,
          metrics_history, arrivals, sret, logcall, lpc, lkept,
          cret, apc, seen, loop_alerts, idx, handled_alert, trace, polled, mark>>

-----------------------------------------------------------------------------
(* Bounds of the model *)

\* how many resources are generated, pods and endpoints in turn
NumResources == 2
\* how many times the clock is advanced
MaxTicks == 2
\* identifiers available to uuid4
MaxIds == 2
\* concurrent generator threads
NumThreads == 2

-----------------------------------------------------------------------------
(* Program constants *)

AllPodNames == <<"api-gateway-7d9f8b-xyz12", "auth-service-5c8a4f-abc34",
                 "payment-service-9b2e1d-def56", "notification-service-4a7c3e-ghi78",
                 "user-service-6f1b9a-jkl90", "inventory-service-3d8e2c-mno12",
                 "frontend-app-8c4f7b-pqr34">>

AllApiEndpoints == <<"/api/v1/users", "/api/v1/products", "/api/v1/orders",
                     "/api/v1/auth/login", "/api/v1/payments", "/api/v1/inventory",
                     "/api/v1/notifications">>

\* the first pods and endpoints of the lists above, within the bound
POD_NAMES == SubSeq(AllPodNames, 1, (NumResources + 1) \div 2)

API_ENDPOINTS == SubSeq(AllApiEndpoints, 1, NumResources \div 2)

\* timedelta(minutes=5)
RETENTION_MINUTES == 5

\* cpu > 90 or memory > 90
RESOURCE_LIMIT == 90

\* p95_latency > 1000
LATENCY_LIMIT_MS == 1000

\* error_rate > 3
ERROR_RATE_LIMIT == 3

None == [none |-> TRUE]

-----------------------------------------------------------------------------
(* datetime <-> ISO string *)

\* datetime.isoformat(): the instant written out field by field
isoformat(t) == [hour |-> t \div 60, minute |-> t % 60]

\* datetime.fromisoformat(): the fields read back into an instant
fromisoformat(s) == s.hour * 60 + s.minute

-----------------------------------------------------------------------------
(* Random draws *)

\* _generate_pod_status: random.choice over Running x4, Pending, CrashLoopBackOff
PodStatuses == {"Running", "Pending", "CrashLoopBackOff"}

\* _generate_cpu_usage: min(100, uniform(20,60) + spike), samples below and above 90
CpuSamples == {45, 95}

\* _generate_memory_usage: uniform(30, 85), never above 90
MemSamples == {60}

\* one draw per outcome of the alert rule: no breach, cpu alone, status alone, both
PodDraws ==
    {d \in [status : PodStatuses, cpu : CpuSamples, memory : MemSamples] :
        (d.status = "Running" => d.cpu <= RESOURCE_LIMIT) /\ (d.status = "Pending" => d.cpu > RESOURCE_LIMIT)}

\* p95 = p50 * uniform(2,4) with p50 in [50,200] or [800,2000]
P95Samples == {400, 1500}

\* error_rate = uniform(0.1, 5.0)
ErrorRateSamples == {1, 4}

EndpointDraws == [p95_latency : P95Samples, error_rate : ErrorRateSamples]

-----------------------------------------------------------------------------
(* Alert store helpers *)

\* a for a in ACTIVE_ALERTS if a["resource"] == name
MatchingIdx(alerts, name) == {i \in 1..Len(alerts) : alerts[i].resource = name}

FirstIdx(S) == CHOOSE i \in S : \A j \in S : i <= j

\* next((a for a in ACTIVE_ALERTS if a["resource"] == name), None)
ExistingAlert(alerts, name) ==
    IF MatchingIdx(alerts, name) = {} THEN None
    ELSE alerts[FirstIdx(MatchingIdx(alerts, name))]

\* if status == "CrashLoopBackOff" or cpu > 90 or memory > 90
K8sBreach(d) ==
    d.status = "CrashLoopBackOff" \/ d.cpu > RESOURCE_LIMIT \/ d.memory > RESOURCE_LIMIT

\* variant of K8sAlertType in which high cpu or memory takes precedence
K8sAlertTypeUsageFirst(d) ==
    IF d.cpu > RESOURCE_LIMIT \/ d.memory > RESOURCE_LIMIT THEN "HighResourceUsage" ELSE "CrashLoop"

\* alert_type = "CrashLoop" if status == "CrashLoopBackOff" else "HighResourceUsage"
K8sAlertType(d) == IF d.status = "CrashLoopBackOff" THEN "CrashLoop" ELSE "HighResourceUsage"

\* the dict appended by get_k8s_metrics
K8sAlert(id, pod_name, d, t) ==
    [id        |-> id,
     type      |-> K8sAlertType(d),
     severity  |-> IF d.status = "CrashLoopBackOff" THEN "critical" ELSE "warning",
     resource  |-> pod_name,
     message   |-> <<K8sAlertType(d), "detected on", pod_name>>,
     timestamp |-> isoformat(t),
     status    |-> "firing"]

\* if p95_latency > 1000 or error_rate > 3
ApiBreach(d) == d.p95_latency > LATENCY_LIMIT_MS \/ d.error_rate > ERROR_RATE_LIMIT

ApiAlertType(d) == IF d.p95_latency > LATENCY_LIMIT_MS THEN "HighLatency" ELSE "HighErrorRate"

\* the dict appended by get_api_gateway_metrics
ApiAlert(id, endpoint, d, t) ==
    [id        |-> id,
     type      |-> ApiAlertType(d),
     severity  |-> "warning",
     resource  |-> endpoint,
     message   |-> IF ApiAlertType(d) = "HighLatency"
                   THEN <<"HighLatency on", endpoint, d.p95_latency>>
                   ELSE <<"Error rate", d.error_rate>>,
     timestamp |-> isoformat(t),
     status    |-> "firing"]

\* variant of RecordIfAbsent that appends without the lookup
NoDedupRecord(st, name, alert) ==
    [alerts |-> Append(st.alerts, alert), nid |-> st.nid + 1]

\* variant of RecordIfAbsent that stamps the existing alert with the time of the new breach
RecordRefreshing(st, name, alert) ==
    IF ExistingAlert(st.alerts, name) = None
    THEN [alerts |-> Append(st.alerts, alert), nid |-> st.nid + 1]
    ELSE [alerts |-> [i \in 1..Len(st.alerts) |->
                        IF st.alerts[i].resource = name
                        THEN [st.alerts[i] EXCEPT !.timestamp = alert.timestamp]
                        ELSE st.alerts[i]],
          nid |-> st.nid]

\* existing_alert = next(...); if not existing_alert: ACTIVE_ALERTS.append({...})
RecordIfAbsent(st, name, alert) ==
    IF ExistingAlert(st.alerts, name) = None
    THEN [alerts |-> Append(st.alerts, alert), nid |-> st.nid + 1]
    ELSE st

\* for idx, pod_name in enumerate(POD_NAMES): ... the alert part of the loop body
RECURSIVE K8sLoop(_, _, _, _)
K8sLoop(i, draws, st, t) ==
    IF i > Len(POD_NAMES) THEN st
    ELSE K8sLoop(i + 1, draws,
                 IF K8sBreach(draws[i])
                 THEN RecordIfAbsent(st, POD_NAMES[i], K8sAlert(st.nid, POD_NAMES[i], draws[i], t))
                 ELSE st,
                 t)

\* for endpoint in API_ENDPOINTS: ... the alert part of the loop body
RECURSIVE ApiLoop(_, _, _, _)
ApiLoop(i, draws, st, t) ==
    IF i > Len(API_ENDPOINTS) THEN st
    ELSE ApiLoop(i + 1, draws,
                 IF ApiBreach(draws[i])
                 THEN RecordIfAbsent(st, API_ENDPOINTS[i], ApiAlert(st.nid, API_ENDPOINTS[i], draws[i], t))
                 ELSE st,
                 t)

\* variant of NotExpired that keeps an alert stamped exactly at the cutoff
NotExpiredInclusive(a, cutoff_time) == fromisoformat(a.timestamp) >= cutoff_time

\* datetime.fromisoformat(a["timestamp"]) > cutoff_time
NotExpired(a, cutoff_time) == fromisoformat(a.timestamp) > cutoff_time

\* ACTIVE_ALERTS = [a for a in ACTIVE_ALERTS if ... > cutoff_time]
Retained(alerts, t) ==
    SelectSeq(alerts, LAMBDA a : NotExpired(a, t - RETENTION_MINUTES))

\* variant of Filtered that ignores the severity argument
NoFilter(alerts, severity) == alerts

\* filtered = [a for a in ACTIVE_ALERTS if a["severity"] == severity], or all of them
Filtered(alerts, severity) ==
    IF severity # "all"
    THEN SelectSeq(alerts, LAMBDA a : a.severity = severity)
    ELSE alerts

\* variant of CountSeverity that counts "info" together with "warning"
CountSeverityLumped(alerts, severity) ==
    Len(SelectSeq(alerts, LAMBDA a : a.severity = severity
                                      \/ (severity = "info" /\ a.severity = "warning")))

\* len([a for a in filtered if a["severity"] == severity])
CountSeverity(alerts, severity) == Len(SelectSeq(alerts, LAMBDA a : a.severity = severity))

SeverityArgs == {"all", "critical", "warning", "info"}

-----------------------------------------------------------------------------
(* Initial state: the module has just been imported *)

NoCall == [op |-> "none"]

Idle == [fn |-> "none", i |-> 0, at |-> "idle"]

InitStore ==
    /\ now = 0
    /\ ACTIVE_ALERTS = <<>>
    /\ nextId = 1
    /\ ret = NoCall
    /\ pre_alerts = <<>>
    /\ tpc = [t \in 1..NumThreads |-> Idle]
    /\ tdraw = [t \in 1..NumThreads |-> None]
    /\ texisting = [t \in 1..NumThreads |-> None]
    /\ ppc = "idle"
    /\ pmode = "sync"
    /\ pstate = <<>>
    /\ pret = NoCall
    /\ executed = <<>>
    /\ failed_at = "none"
    /\ llm_failed = FALSE
    /\ prev_run = None
    /\ metrics_history = [k8s |-> <<>>, api |-> <<>>, alerts |-> <<>>]
    /\ arrivals = [k8s |-> <<>>, api |-> <<>>, alerts |-> <<>>]
    /\ sret = NoCall
    /\ logcall = NoCall
    /\ lpc = "idle"
    /\ lkept = <<>>
    /\ cret = NoCall
    /\ apc = "off"
    /\ seen = {}
    /\ loop_alerts = <<>>
    /\ idx = 0
    /\ handled_alert = None
    /\ trace = <<>>
    /\ polled = <<>>
    /\ mark = 0

\* IncidentResponseAgent.__init__ without OPENAI_API_KEY
Init == InitStore /\ llm = FALSE

-----------------------------------------------------------------------------
(* Handlers, run one at a time *)

\* datetime.now() is read one minute before and exactly at every multiple of the
\* retention window: 0, 4, 5, 9, 10, ... so that ages just below, at and above the
\* window all occur
TicksSoFar(t) ==
    2 * (t \div RETENTION_MINUTES) + (IF t % RETENTION_MINUTES = 0 THEN 0 ELSE 1)

NextReading(t) ==
    IF t % RETENTION_MINUTES = 0 THEN t + RETENTION_MINUTES - 1 ELSE t + 1

\* the clock advances between calls
Tick ==
    /\ TicksSoFar(now) < MaxTicks
    /\ now' = NextReading(now)
    /\ UNCHANGED <<ACTIVE_ALERTS, nextId, ret, pre_alerts, threadVars, pipeVars, toolVars, listVars, agentVars>>

\* get_k8s_metrics(namespace): what the call does to the store, and what it returns
CallGetK8sMetrics ==
    \E draws \in [1..Len(POD_NAMES) -> PodDraws] :
        LET st == K8sLoop(1, draws, [alerts |-> ACTIVE_ALERTS, nid |-> nextId], now)
        IN /\ st.nid <= MaxIds + 1
           /\ ACTIVE_ALERTS' = st.alerts
           /\ nextId' = st.nid
           /\ pre_alerts' = ACTIVE_ALERTS
           /\ ret' = [op        |-> "get_k8s_metrics",
                      pods      |-> [i \in 1..Len(POD_NAMES) |->
                                        [name   |-> POD_NAMES[i],
                                         status |-> draws[i].status,
                                         cpu_usage_percent    |-> draws[i].cpu,
                                         memory_usage_percent |-> draws[i].memory]],
                      timestamp |-> isoformat(now)]

\* get_k8s_metrics(namespace) called on its own
GetK8sMetrics == CallGetK8sMetrics /\ UNCHANGED <<now, threadVars, pipeVars, toolVars, listVars, agentVars>>

\* get_api_gateway_metrics(time_window): what the call does to the store, and what it returns
CallGetApiGatewayMetrics ==
    \E draws \in [1..Len(API_ENDPOINTS) -> EndpointDraws] :
        LET st == ApiLoop(1, draws, [alerts |-> ACTIVE_ALERTS, nid |-> nextId], now)
        IN /\ st.nid <= MaxIds + 1
           /\ ACTIVE_ALERTS' = st.alerts
           /\ nextId' = st.nid
           /\ pre_alerts' = ACTIVE_ALERTS
           /\ ret' = [op        |-> "get_api_gateway_metrics",
                      endpoints |-> [i \in 1..Len(API_ENDPOINTS) |->
                                        [path           |-> API_ENDPOINTS[i],
                                         error_rate     |-> draws[i].error_rate,
                                         latency_p95_ms |-> draws[i].p95_latency]],
                      timestamp |-> isoformat(now)]

\* get_api_gateway_metrics(time_window) called on its own
GetApiGatewayMetrics ==
    CallGetApiGatewayMetrics /\ UNCHANGED <<now, threadVars, pipeVars, toolVars, listVars, agentVars>>

\* get_active_alerts(severity): what the call does to the store, and what it returns
CallGetActiveAlerts ==
    \E severity \in SeverityArgs :
        LET kept == Retained(ACTIVE_ALERTS, now)
            filtered == Filtered(kept, severity)
        IN /\ ACTIVE_ALERTS' = kept
           /\ pre_alerts' = ACTIVE_ALERTS
           /\ ret' = [op           |-> "get_active_alerts",
                      severity     |-> severity,
                      total_alerts |-> Len(filtered),
                      critical     |-> CountSeverity(filtered, "critical"),
                      warning      |-> CountSeverity(filtered, "warning"),
                      info         |-> CountSeverity(filtered, "info"),
                      alerts       |-> filtered,
                      timestamp    |-> isoformat(now)]
           /\ nextId' = nextId

\* get_active_alerts(severity) called on its own
GetActiveAlerts == CallGetActiveAlerts /\ UNCHANGED <<now, threadVars, pipeVars, toolVars, listVars, agentVars>>

Next == Tick \/ GetK8sMetrics \/ GetApiGatewayMetrics \/ GetActiveAlerts

Spec == Init /\ [][Next]_vars

\* the list call keeps being made: the pollers and the dashboard call it on every pass
FairSpec == Spec /\ WF_vars(GetActiveAlerts)

-----------------------------------------------------------------------------
(* Claims about the handlers run one at a time *)

NoDuplicateResource(alerts) ==
    \A i, j \in 1..Len(alerts) : i # j => alerts[i].resource # alerts[j].resource

InSeq(a, alerts) == \E i \in 1..Len(alerts) : alerts[i] = a

\* age of an alert at instant t, now - timestamp
Age(a, t) == t - (a.timestamp.hour * 60 + a.timestamp.minute)

CallTime == ret.timestamp.hour * 60 + ret.timestamp.minute

\* the resources for which the last generator call observed a threshold breach
BreachedByLastCall ==
    IF ret.op = "get_k8s_metrics"
    THEN {ret.pods[i].name : i \in {k \in 1..Len(ret.pods) :
              \/ ret.pods[k].status = "CrashLoopBackOff"
              \/ ret.pods[k].cpu_usage_percent > 90
              \/ ret.pods[k].memory_usage_percent > 90}}
    ELSE IF ret.op = "get_api_gateway_metrics"
    THEN {ret.endpoints[i].path : i \in {k \in 1..Len(ret.endpoints) :
              \/ ret.endpoints[k].latency_p95_ms > 1000
              \/ ret.endpoints[k].error_rate > 3}}
    ELSE {}

\* C1: Dedup invariant. After any sequence of get_k8s_metrics,
\* get_api_gateway_metrics and get_active_alerts calls run one at a time,
\* ACTIVE_ALERTS never contains two alerts with the same resource.
C1_DedupInvariant == NoDuplicateResource(ACTIVE_ALERTS)

\* a generator call has just seen a breach on a resource that already had an alert
C1_Witness ==
    /\ \E r \in BreachedByLastCall : \E i \in 1..Len(pre_alerts) : pre_alerts[i].resource = r
    /\ ACTIVE_ALERTS = pre_alerts

\* C3: Expiry invariant. For every alert and every severity argument, a
\* get_active_alerts call made when now - timestamp >= 5 minutes does not return
\* that alert, and the alert is no longer in the store after the call.
C3_ExpiryInvariant ==
    ret.op = "get_active_alerts" =>
        \A i \in 1..Len(pre_alerts) :
            Age(pre_alerts[i], CallTime) >= 5 =>
                /\ ~InSeq(pre_alerts[i], ret.alerts)
                /\ ~InSeq(pre_alerts[i], ACTIVE_ALERTS)

\* a list call has just met an alert whose age is exactly the retention window,
\* next to one that is younger
C3_Witness ==
    /\ ret.op = "get_active_alerts"
    /\ \E i \in 1..Len(pre_alerts) : Age(pre_alerts[i], CallTime) = 5
    /\ \E i \in 1..Len(pre_alerts) : Age(pre_alerts[i], CallTime) < 5

\* C4: Severity filter correctness. get_active_alerts(severity), severity in
\* {critical, warning, info}, returns exactly the non-expired alerts of that
\* severity, and get_active_alerts("all") returns exactly all non-expired alerts.
C4_SeverityFilterCorrect ==
    ret.op = "get_active_alerts" =>
        ret.alerts = SelectSeq(pre_alerts,
                               LAMBDA a : /\ Age(a, CallTime) < 5
                                          /\ (ret.severity = "all" \/ a.severity = ret.severity))

\* a list call with a severity argument has just returned one alert and left out
\* another, non-expired one of a different severity
C4_Witness ==
    /\ ret.op = "get_active_alerts"
    /\ ret.severity \in {"critical", "warning"}
    /\ Len(ret.alerts) = 1
    /\ \E i \in 1..Len(pre_alerts) :
          Age(pre_alerts[i], CallTime) < 5 /\ pre_alerts[i].severity # ret.severity

\* C5: Insert-if-absent. When a generator call observes a threshold breach for a
\* resource, a new alert is inserted if and only if no alert still within the
\* 5-minute retention window has that resource; an alert past the window that a
\* list call has not evicted yet must not suppress the insert.
C5_InsertIffNoActiveAlert ==
    \A r \in BreachedByLastCall :
        (\E i \in 1..Len(ACTIVE_ALERTS) :
            ACTIVE_ALERTS[i].resource = r /\ ~InSeq(ACTIVE_ALERTS[i], pre_alerts))
        <=>
        ~(\E i \in 1..Len(pre_alerts) :
            pre_alerts[i].resource = r /\ Age(pre_alerts[i], CallTime) < 5)

-----------------------------------------------------------------------------
(* The generators called from several threads of one process (Streamlit     *)
(* sessions, the exporter loop).  A thread can be preempted between the     *)
(* lookup of existing_alert and the append.                                 *)

Threads == 1..NumThreads

Resources(fn) == IF fn = "get_k8s_metrics" THEN POD_NAMES ELSE API_ENDPOINTS

DrawsOf(fn) == IF fn = "get_k8s_metrics" THEN PodDraws ELSE EndpointDraws

Breach(fn, d) == IF fn = "get_k8s_metrics" THEN K8sBreach(d) ELSE ApiBreach(d)

NewAlert(fn, id, name, d, t) ==
    IF fn = "get_k8s_metrics" THEN K8sAlert(id, name, d, t) ELSE ApiAlert(id, name, d, t)

\* a thread enters get_k8s_metrics or get_api_gateway_metrics
TCall(t) ==
    /\ tpc[t].at = "idle"
    /\ \E fn \in {"get_k8s_metrics", "get_api_gateway_metrics"} :
          tpc' = [tpc EXCEPT ![t] = [fn |-> fn, i |-> 1, at |-> "loop"]]
    /\ UNCHANGED <<storeVars, tdraw, texisting, pipeVars, toolVars, listVars, agentVars>>

\* one pass of the loop body up to and including
\* existing_alert = next((a for a in ACTIVE_ALERTS if a["resource"] == name), None)
TLookup(t) ==
    /\ tpc[t].at = "loop"
    /\ tpc[t].i <= Len(Resources(tpc[t].fn))
    /\ \E d \in DrawsOf(tpc[t].fn) :
          IF Breach(tpc[t].fn, d)
          THEN /\ tdraw' = [tdraw EXCEPT ![t] = d]
               /\ texisting' = [texisting EXCEPT ![t] =
                                   ExistingAlert(ACTIVE_ALERTS, Resources(tpc[t].fn)[tpc[t].i])]
               /\ tpc' = [tpc EXCEPT ![t].at = "looked_up"]
          ELSE /\ tpc' = [tpc EXCEPT ![t].i = @ + 1]
               /\ UNCHANGED <<tdraw, texisting>>
    /\ UNCHANGED <<storeVars, pipeVars, toolVars, listVars, agentVars>>

\* if not existing_alert: ACTIVE_ALERTS.append({...})
TAppend(t) ==
    /\ tpc[t].at = "looked_up"
    /\ IF texisting[t] = None
       THEN /\ nextId <= MaxIds
            /\ ACTIVE_ALERTS' = Append(ACTIVE_ALERTS,
                                       NewAlert(tpc[t].fn, nextId,
                                                Resources(tpc[t].fn)[tpc[t].i], tdraw[t], now))
            /\ nextId' = nextId + 1
       ELSE UNCHANGED <<ACTIVE_ALERTS, nextId>>
    /\ tpc' = [tpc EXCEPT ![t] = [fn |-> @.fn, i |-> @.i + 1, at |-> "loop"]]
    /\ tdraw' = [tdraw EXCEPT ![t] = None]
    /\ texisting' = [texisting EXCEPT ![t] = None]
    /\ UNCHANGED <<now, ret, pre_alerts, pipeVars, toolVars, listVars, agentVars>>

\* the loop is over and the handler returns
TReturn(t) ==
    /\ tpc[t].at = "loop"
    /\ tpc[t].i > Len(Resources(tpc[t].fn))
    /\ tpc' = [tpc EXCEPT ![t] = Idle]
    /\ UNCHANGED <<storeVars, tdraw, texisting, pipeVars, toolVars, listVars, agentVars>>

ConcNext == \E t \in Threads : TCall(t) \/ TLookup(t) \/ TAppend(t) \/ TReturn(t)

ConcSpec == Init /\ [][ConcNext]_vars

\* C2: Concurrent dedup. When two telemetry generations run concurrently and both
\* observe a breach for the same resource, their check-for-existing-alert and
\* append steps are mutually exclusive, so under every interleaving at most one
\* alert for that resource ends up in the store.
C2_ConcurrentDedup ==
    (\A t \in Threads : tpc[t].at = "idle") => NoDuplicateResource(ACTIVE_ALERTS)

-----------------------------------------------------------------------------
(* Python values used by the pipeline *)

\* None where a string is expected
PyNone == "None"

\* d.get(k, default)
Get(d, k, default) == IF k \in DOMAIN d THEN d[k] ELSE default

\* d[k] = v
Put(d, k, v) == [x \in DOMAIN d \cup {k} |-> IF x = k THEN v ELSE d[x]]

\* text is a sequence of characters
Whitespace == {" ", "\n", "\t"}

RECURSIVE StripLeft(_, _)
StripLeft(text, chars) ==
    IF text # <<>> /\ Head(text) \in chars THEN StripLeft(Tail(text), chars) ELSE text

RECURSIVE StripRight(_, _)
StripRight(text, chars) ==
    IF text # <<>> /\ text[Len(text)] \in chars
    THEN StripRight(SubSeq(text, 1, Len(text) - 1), chars)
    ELSE text

\* str.strip(chars)
Strip(text, chars) == StripRight(StripLeft(text, chars), chars)

RECURSIVE SplitAcc(_, _)
SplitAcc(text, cur) ==
    IF text = <<>> THEN (IF cur = <<>> THEN <<>> ELSE <<cur>>)
    ELSE IF Head(text) = "\n" THEN <<cur>> \o SplitAcc(Tail(text), <<>>)
    ELSE SplitAcc(Tail(text), Append(cur, Head(text)))

\* str.splitlines()
SplitLines(text) == SplitAcc(text, <<>>)

-----------------------------------------------------------------------------
(* Inputs of the pipeline *)

\* alert arguments a caller can pass: None, {}, complete dicts, a dict without
\* resource, a dict whose resource is None, a string instead of a dict
AbsentAlert == [kind |-> "none", d |-> <<>>]

EmptyAlert == [kind |-> "dict", d |-> <<>>]

GoodAlert ==
    [kind |-> "dict",
     d |-> [id |-> "a1", type |-> "CrashLoop", severity |-> "critical",
            resource |-> "pod-x", message |-> "CrashLoop detected on pod-x"]]

NoResourceAlert ==
    [kind |-> "dict", d |-> [id |-> "a2", type |-> "HighLatency", severity |-> "warning"]]

NullResourceAlert ==
    [kind |-> "dict",
     d |-> [id |-> "a3", type |-> "HighErrorRate", severity |-> "warning", resource |-> PyNone]]

StrAlert == [kind |-> "str", d |-> <<>>]

\* an alert as get_api_gateway_metrics appends it
GatewayAlert ==
    [kind |-> "dict",
     d |-> [id |-> "a4", type |-> "HighLatency", severity |-> "warning",
            resource |-> "/api/v1/payments", message |-> "HighLatency on /api/v1/payments",
            timestamp |-> "12:00", status |-> "firing"]]

AlertInputs ==
    {AbsentAlert, EmptyAlert, GoodAlert, GatewayAlert, NoResourceAlert, NullResourceAlert,
     StrAlert}

\* bool(alert)
Truthy(alert) == alert.kind = "str" \/ (alert.kind = "dict" /\ DOMAIN alert.d # {})

\* random.randint(0, 5)
RestartSamples == {0, 5}

\* lines=120 in _analyze_logs
PIPELINE_LOG_LINES == 120

\* log_entries[-50:]
LOG_TAIL == 50

\* the severities drawn for a batch: e ERROR lines, then w WARN lines, then INFO
LogBatch(lines, e, w) ==
    [i \in 1..lines |-> IF i <= e THEN "ERROR" ELSE IF i <= e + w THEN "WARN" ELSE "INFO"]

\* batches with no error, with errors exactly at a fifth of the lines, and just above
LogBatches(lines) ==
    {LogBatch(lines, 0, 0), LogBatch(lines, lines \div 5, 3), LogBatch(lines, lines \div 5 + 1, 0)}

\* response.content of the backend: a sentence, and a bullet list of four steps
\* with an empty line in it
LlmContents ==
    {<<" ", "o", "k", "\n">>,
     <<"-", " ", "a", "\n", "\n", "-", " ", "b", "\n", "c", " ", "\n", "-", "d">>}

-----------------------------------------------------------------------------
(* metrics_generator functions called by the pipeline *)

\* get_pod_details(pod_name)
get_pod_details(pod_name, d, restarts) ==
    [name          |-> pod_name,
     namespace     |-> "production",
     status        |-> d.status,
     cpu_usage     |-> d.cpu,
     memory_usage  |-> d.memory,
     restart_count |-> restarts,
     containers    |-> <<[name |-> "main", image |-> "myapp:v1.2.3", ready |-> TRUE]>>,
     events        |-> <<[type |-> "Normal", reason |-> "Started"],
                         [type |-> "Normal", reason |-> "Pulling"]>>]

\* the for loop of get_cluster_logs: the entries that pass the severity filter
LogEntries(pod_name, lines, severity, sevs) ==
    SelectSeq([i \in 1..lines |->
                  [seconds_ago |-> lines - (i - 1),
                   severity    |-> sevs[i],
                   pod         |-> IF pod_name # "all" THEN pod_name ELSE AllPodNames[1]]],
              LAMBDA l : severity = "all" \/ l.severity = severity)

\* len([l for l in log_entries if l["severity"] == sev])
CountLogs(entries, sev) == Len(SelectSeq(entries, LAMBDA l : l.severity = sev))

LastEntries(entries, n) ==
    IF Len(entries) <= n THEN entries ELSE SubSeq(entries, Len(entries) - n + 1, Len(entries))

\* get_cluster_logs(pod_name, lines, severity); error_count > lines * 0.2
get_cluster_logs(pod_name, lines, severity, sevs) ==
    LET log_entries == LogEntries(pod_name, lines, severity, sevs)
        error_count == CountLogs(log_entries, "ERROR")
        anomaly_detected == 5 * error_count > lines
    IN [pod                 |-> pod_name,
        total_lines         |-> Len(log_entries),
        error_count         |-> error_count,
        warning_count       |-> CountLogs(log_entries, "WARN"),
        anomaly_detected    |-> anomaly_detected,
        anomaly_description |-> IF anomaly_detected
                                THEN [text |-> <<"High error rate", error_count, lines>>]
                                ELSE None,
        logs                |-> LastEntries(log_entries, LOG_TAIL)]

-----------------------------------------------------------------------------
(* Stages of IncidentResponseAgent.  A stage yields the state it returns, or  *)
(* the exception it raises together with the state as it was left.            *)

Returned(state) == [raised |-> FALSE, exc |-> "none", state |-> state]

Raised(exc, state) == [raised |-> TRUE, exc |-> exc, state |-> state]

\* variant of enrich_alert that keeps the pod details in the alert dict
EnrichIntoAlert(state, d, restarts) ==
    IF ~Truthy(Get(state, "alert", AbsentAlert))
    THEN Returned(Put(state, "error", "Alert is missing from state"))
    ELSE IF state.alert.kind # "dict"
    THEN Raised("AttributeError", state)
    ELSE Returned([state EXCEPT !.alert.d =
                      Put(@, "pod_details",
                          get_pod_details(Get(state.alert.d, "resource", "unknown"), d, restarts))])

\* _enrich_alert: alert.get on a value that is no dict raises AttributeError
enrich_alert(state, d, restarts) ==
    IF ~Truthy(Get(state, "alert", AbsentAlert))
    THEN Returned(Put(state, "error", "Alert is missing from state"))
    ELSE IF state.alert.kind # "dict"
    THEN Raised("AttributeError", state)
    ELSE Returned(Put(state, "pod_details",
                      get_pod_details(Get(state.alert.d, "resource", "unknown"), d, restarts)))

\* _analyze_logs: pod_name.lower() inside get_cluster_logs raises when resource is None
analyze_logs(state, sevs) ==
    IF ~Truthy(Get(state, "alert", AbsentAlert))
    THEN Returned(Put(state, "error", "Alert is missing from state"))
    ELSE IF state.alert.kind # "dict"
    THEN Raised("AttributeError", state)
    ELSE IF Get(state.alert.d, "resource", "all") = PyNone
    THEN Raised("AttributeError", state)
    ELSE Returned(Put(state, "logs",
                      get_cluster_logs(Get(state.alert.d, "resource", "all"),
                                       PIPELINE_LOG_LINES, "all", sevs)))

FALLBACK_SUMMARY == "Likely resource saturation or error spike in service"

\* variant of diagnose_root_cause that looks the error count up in the alert
DiagnoseCountFromAlert(state, backend) ==
    IF ~Truthy(Get(state, "alert", AbsentAlert))
    THEN [done |-> TRUE,
          state |-> Put(state, "root_cause",
                        [summary |-> "No alert available to analyze", evidence |-> <<>>])]
    ELSE IF ~backend
    THEN [done |-> TRUE,
          state |-> Put(state, "root_cause",
                        [summary  |-> FALLBACK_SUMMARY,
                         evidence |-> << <<"Alert type", Get(state.alert.d, "type", PyNone)>>,
                                         <<"Error count", Get(state.alert.d, "error_count", 0)>>,
                                         <<"Pod status", Get(Get(state, "pod_details", <<>>), "status", "unknown")>> >>])]
    ELSE [done |-> FALSE, state |-> state]

\* variant of diagnose_root_cause that leaves the error count out when it is zero
DiagnoseOmittingZeroCount(state, backend) ==
    IF ~Truthy(Get(state, "alert", AbsentAlert))
    THEN [done |-> TRUE,
          state |-> Put(state, "root_cause",
                        [summary |-> "No alert available to analyze", evidence |-> <<>>])]
    ELSE IF ~backend
    THEN [done |-> TRUE,
          state |-> Put(state, "root_cause",
                        [summary  |-> FALLBACK_SUMMARY,
                         evidence |-> << <<"Alert type", Get(state.alert.d, "type", PyNone)>> >>
                                      \o (IF Get(Get(state, "logs", <<>>), "error_count", 0) = 0
                                          THEN <<>>
                                          ELSE << <<"Error count", Get(Get(state, "logs", <<>>), "error_count", 0)>> >>)
                                      \o << <<"Pod status", Get(Get(state, "pod_details", <<>>), "status", "unknown")>> >>])]
    ELSE [done |-> FALSE, state |-> state]

\* _diagnose_root_cause up to the backend call: "done" with the state, or "invoke"
diagnose_root_cause(state, backend) ==
    IF ~Truthy(Get(state, "alert", AbsentAlert))
    THEN [done |-> TRUE,
          state |-> Put(state, "root_cause",
                        [summary |-> "No alert available to analyze", evidence |-> <<>>])]
    ELSE IF ~backend
    THEN [done |-> TRUE,
          state |-> Put(state, "root_cause",
                        [summary  |-> FALLBACK_SUMMARY,
                         evidence |-> << <<"Alert type", Get(state.alert.d, "type", PyNone)>>,
                                         <<"Error count", Get(Get(state, "logs", <<>>), "error_count", 0)>>,
                                         <<"Pod status", Get(Get(state, "pod_details", <<>>), "status", "unknown")>> >>])]
    ELSE [done |-> FALSE, state |-> state]

\* _diagnose_root_cause after llm.invoke has returned
diagnose_with_response(state, content) ==
    Put(state, "root_cause",
        [summary  |-> Strip(content, Whitespace),
         evidence |-> <<"AI analysis based on alert and logs">>])

FALLBACK_RECOMMENDATIONS ==
    <<"Restart affected pod", "Check downstream dependencies",
      "Scale deployment if CPU is saturated">>

\* _recommend_actions up to the backend call
recommend_actions(state, backend) ==
    IF ~Get(state, "include_recommendations", FALSE)
    THEN [done |-> TRUE, state |-> Put(state, "recommendations", <<>>)]
    ELSE IF ~backend
    THEN [done |-> TRUE, state |-> Put(state, "recommendations", FALLBACK_RECOMMENDATIONS)]
    ELSE [done |-> FALSE, state |-> state]

\* steps = [line.strip("- ") for line in content.splitlines() if line.strip()]
Steps(content) ==
    LET lines == SelectSeq(SplitLines(content), LAMBDA l : Strip(l, Whitespace) # <<>>)
    IN [i \in 1..Len(lines) |-> Strip(lines[i], {"-", " "})]

\* variant of recommend_with_response that keeps every step
RecommendUncapped(state, content) == Put(state, "recommendations", Steps(content))

\* _recommend_actions after llm.invoke has returned: steps[:3]
recommend_with_response(state, content) ==
    Put(state, "recommendations",
        SubSeq(Steps(content), 1, IF Len(Steps(content)) < 3 THEN Len(Steps(content)) ELSE 3))

-----------------------------------------------------------------------------
(* Orchestration *)

\* the try block of analyze_incident_sync
SyncOrder == <<"enrich_alert", "analyze_logs", "diagnose_root_cause", "recommend_actions">>

\* _build_graph
EntryPoint == "enrich_alert"

GraphEdges ==
    {<<"enrich_alert", "analyze_logs">>, <<"analyze_logs", "diagnose_root_cause">>,
     <<"diagnose_root_cause", "recommend_actions">>, <<"recommend_actions", "END">>}

Successor(mode, stage) ==
    IF mode = "graph"
    THEN (CHOOSE e \in GraphEdges : e[1] = stage)[2]
    ELSE LET k == CHOOSE i \in 1..Len(SyncOrder) : SyncOrder[i] = stage
         IN IF k < Len(SyncOrder) THEN SyncOrder[k + 1] ELSE "END"

\* variant of AfterStage that goes on to the next stage after an exception
AfterStageIgnoringRaise(mode, stage, raised) == Successor(mode, stage)

\* where control goes when a stage is over: on to the next stage, or out of the run
AfterStage(mode, stage, raised) == IF raised THEN "END" ELSE Successor(mode, stage)

\* the summary dict returned by analyze_incident_sync
Summary(state) ==
    LET alert_basic == IF "alert" \in DOMAIN state THEN state.alert.d ELSE <<>>
        logs == Get(state, "logs", <<>>)
    IN [alert_id        |-> Get(alert_basic, "id", PyNone),
        type            |-> Get(alert_basic, "type", PyNone),
        severity        |-> Get(alert_basic, "severity", PyNone),
        resource        |-> Get(alert_basic, "resource", PyNone),
        message         |-> Get(alert_basic, "message", PyNone),
        anomaly         |-> Get(logs, "anomaly_description", None),
        root_cause      |-> Get(state, "root_cause", None),
        recommendations |-> Get(state, "recommendations", <<>>)]

\* variant of ErrorReturn that returns the error without the accumulated state
ErrorOnly(state, exc) == [error |-> <<"Analysis failed", exc>>]

\* except Exception as exc: state["error"] = f"Analysis failed: {exc}"; return state
ErrorReturn(state, exc) == Put(state, "error", <<"Analysis failed", exc>>)

\* an exception that leaves the entry point
Propagated(exc) == [exception |-> exc]

\* what the run hands to its caller when it is over
Delivered(mode, res) ==
    IF res.raised
    THEN IF mode = "sync" THEN ErrorReturn(res.state, res.exc) ELSE Propagated(res.exc)
    ELSE IF mode = "sync" THEN Summary(res.state) ELSE res.state

\* PipeInit: the agent is constructed with or without OPENAI_API_KEY
PipeInit == InitStore /\ llm \in BOOLEAN

\* the control flow after a stage has returned or raised
Continue(stage, res) ==
    /\ pstate' = res.state
    /\ failed_at' = IF res.raised THEN stage ELSE failed_at
    /\ IF AfterStage(pmode, stage, res.raised) = "END"
       THEN ppc' = "idle" /\ pret' = Delivered(pmode, res)
       ELSE ppc' = AfterStage(pmode, stage, res.raised) /\ pret' = pret

\* a new run begins: the histories of the run before it are put aside
NewRun ==
    /\ executed' = <<>>
    /\ failed_at' = "none"
    /\ llm_failed' = FALSE
    /\ prev_run' = IF "alert" \in DOMAIN pstate
                   THEN [alert |-> pstate.alert, root_cause |-> Get(pret, "root_cause", None)]
                   ELSE prev_run

\* analyze_incident_sync(alert, include_recommendations) / analyze_incident(...) is called
PCall ==
    /\ ppc = "idle"
    /\ \E alert \in AlertInputs, include \in BOOLEAN, mode \in {"sync", "graph"} :
          /\ pmode' = mode
          /\ IF ~Truthy(alert)
             THEN /\ pret' = [error |-> "Missing alert payload"]
                  /\ pstate' = <<>>
                  /\ ppc' = "idle"
             ELSE /\ pret' = NoCall
                  /\ pstate' = [alert |-> alert, include_recommendations |-> include]
                  /\ ppc' = IF mode = "graph" THEN EntryPoint ELSE SyncOrder[1]
    /\ NewRun
    /\ UNCHANGED <<storeVars, threadVars, toolVars, listVars, agentVars, llm>>

\* self.graph.ainvoke(state) on the compiled graph, with a state whose alert is
\* None or {}: the guard of the entry points is not in the graph
PInvokeGraph ==
    /\ ppc = "idle"
    /\ \E alert \in {AbsentAlert, EmptyAlert}, include \in BOOLEAN :
          pstate' = [alert |-> alert, include_recommendations |-> include]
    /\ pmode' = "graph"
    /\ pret' = NoCall
    /\ ppc' = EntryPoint
    /\ NewRun
    /\ UNCHANGED <<storeVars, threadVars, toolVars, listVars, agentVars, llm>>

\* the run executes _enrich_alert
PEnrich ==
    /\ ppc = "enrich_alert"
    /\ executed' = Append(executed, "enrich_alert")
    /\ \E d \in PodDraws, restarts \in RestartSamples :
          \E res \in {enrich_alert(pstate, d, restarts)} : Continue("enrich_alert", res)
    /\ UNCHANGED <<storeVars, threadVars, toolVars, listVars, agentVars, llm, pmode, llm_failed, prev_run>>

\* the run executes _analyze_logs
PAnalyzeLogs ==
    /\ ppc = "analyze_logs"
    /\ executed' = Append(executed, "analyze_logs")
    /\ \E sevs \in LogBatches(PIPELINE_LOG_LINES) :
          \E res \in {analyze_logs(pstate, sevs)} : Continue("analyze_logs", res)
    /\ UNCHANGED <<storeVars, threadVars, toolVars, listVars, agentVars, llm, pmode, llm_failed, prev_run>>

\* the run executes _diagnose_root_cause, up to llm.invoke when a backend is configured
PDiagnose ==
    /\ ppc = "diagnose_root_cause"
    /\ executed' = Append(executed, "diagnose_root_cause")
    /\ \E r \in {diagnose_root_cause(pstate, llm)} :
          IF r.done
          THEN \E res \in {Returned(r.state)} : Continue("diagnose_root_cause", res)
          ELSE ppc' = "llm_diagnose" /\ UNCHANGED <<pstate, pret, failed_at>>
    /\ UNCHANGED <<storeVars, threadVars, toolVars, listVars, agentVars, llm, pmode, llm_failed, prev_run>>

\* the run executes _recommend_actions, up to llm.invoke when a backend is configured
PRecommend ==
    /\ ppc = "recommend_actions"
    /\ executed' = Append(executed, "recommend_actions")
    /\ \E r \in {recommend_actions(pstate, llm)} :
          IF r.done
          THEN \E res \in {Returned(r.state)} : Continue("recommend_actions", res)
          ELSE ppc' = "llm_recommend" /\ UNCHANGED <<pstate, pret, failed_at>>
    /\ UNCHANGED <<storeVars, threadVars, toolVars, listVars, agentVars, llm, pmode, llm_failed, prev_run>>

\* the backend answers the pending llm.invoke
LLMRespond ==
    /\ ppc \in {"llm_diagnose", "llm_recommend"}
    /\ \E content \in LlmContents :
          IF ppc = "llm_diagnose"
          THEN \E res \in {Returned(diagnose_with_response(pstate, content))} :
                  Continue("diagnose_root_cause", res)
          ELSE \E res \in {Returned(recommend_with_response(pstate, content))} :
                  Continue("recommend_actions", res)
    /\ UNCHANGED <<storeVars, threadVars, toolVars, listVars, agentVars, llm, pmode, executed, llm_failed, prev_run>>

\* the pending llm.invoke raises (network failure)
LLMRaise ==
    /\ ppc \in {"llm_diagnose", "llm_recommend"}
    /\ \E res \in {Raised("APIConnectionError", pstate)} :
          Continue(IF ppc = "llm_diagnose" THEN "diagnose_root_cause" ELSE "recommend_actions", res)
    /\ llm_failed' = TRUE
    /\ UNCHANGED <<storeVars, threadVars, toolVars, listVars, agentVars, llm, pmode, executed, prev_run>>

\* the steps the interpreter takes on its own
PipeStep == PEnrich \/ PAnalyzeLogs \/ PDiagnose \/ PRecommend

PipeNext ==
    \/ PCall \/ PInvokeGraph
    \/ PEnrich \/ PAnalyzeLogs \/ PDiagnose \/ PRecommend
    \/ LLMRespond \/ LLMRaise

PipeSpec == PipeInit /\ [][PipeNext]_vars

\* the interpreter keeps running a started call; nothing obliges the backend to answer
FairPipeSpec == PipeSpec /\ WF_vars(PipeStep)

-----------------------------------------------------------------------------
(* Claims about the pipeline *)

IsPrefix(p, q) == Len(p) <= Len(q) /\ \A i \in 1..Len(p) : p[i] = q[i]

RunOver == ppc = "idle" /\ executed # <<>>

\* C6: Pipeline ordering. In every run on a non-empty alert the stages execute in
\* the fixed order ENRICH, ANALYZE_LOGS, DIAGNOSE, RECOMMEND, each at most once,
\* with no branching or retry; the run either completes all four stages or stops
\* at the first stage that raises, and no later stage runs after a failure.
C6_PipelineOrdering ==
    /\ IsPrefix(executed,
                <<"enrich_alert", "analyze_logs", "diagnose_root_cause", "recommend_actions">>)
    /\ failed_at # "none" => (RunOver /\ executed[Len(executed)] = failed_at)
    /\ (RunOver /\ failed_at = "none") => Len(executed) = 4

\* a run has stopped at ANALYZE_LOGS, which raised
C6_Witness ==
    /\ RunOver
    /\ failed_at = "analyze_logs"
    /\ executed = <<"enrich_alert", "analyze_logs">>

\* the state entries that exist once the stages before `stage` have completed
KeysBefore(stage) ==
    {"alert", "include_recommendations"}
        \cup (IF stage \in {"analyze_logs", "diagnose_root_cause", "recommend_actions"}
              THEN {"pod_details"} ELSE {})
        \cup (IF stage \in {"diagnose_root_cause", "recommend_actions"} THEN {"logs"} ELSE {})
        \cup (IF stage = "recommend_actions" THEN {"root_cause"} ELSE {})

\* C7: Error policy. If any of the four stages raises during analyze_incident_sync,
\* the exception is not propagated; the call returns a value that carries an
\* error field together with exactly the state entries produced by the stages
\* that completed before the failure.
C7_ErrorPolicy ==
    (RunOver /\ pmode = "sync" /\ failed_at # "none") =>
        /\ "exception" \notin DOMAIN pret
        /\ DOMAIN pret = KeysBefore(failed_at) \cup {"error"}
        /\ \A k \in KeysBefore(failed_at) : pret[k] = pstate[k]

\* a synchronous run has failed in RECOMMEND, after three completed stages
C7_Witness ==
    /\ RunOver
    /\ pmode = "sync"
    /\ failed_at = "recommend_actions"
    /\ "root_cause" \in DOMAIN pret

\* C8: Output contract. Every value returned by the synchronous pipeline run is
\* the flat summary object and never exposes the full intermediate state (pod
\* detail, raw log analysis, the include_recommendations flag), whichever stages
\* succeeded or failed.
C8_FlatSummaryOnly ==
    (RunOver /\ pmode = "sync") =>
        /\ {"alert_id", "type", "severity", "resource", "message", "anomaly",
            "root_cause", "recommendations"} \subseteq DOMAIN pret
        /\ DOMAIN pret \cap {"pod_details", "logs", "include_recommendations"} = {}

\* C9: Backend degradation. When a backend is configured but its invocation fails
\* in DIAGNOSE or RECOMMEND, the result contains the deterministic fallback root
\* cause and the fixed fallback recommendations, and no error field.
C9_BackendFailureDegrades ==
    (RunOver /\ pmode = "sync" /\ llm_failed) =>
        /\ "error" \notin DOMAIN pret
        /\ "root_cause" \in DOMAIN pret
        /\ "recommendations" \in DOMAIN pret
        /\ pret.root_cause.summary = "Likely resource saturation or error spike in service"
        /\ pret.recommendations \in
              {<<>>, <<"Restart affected pod", "Check downstream dependencies",
                       "Scale deployment if CPU is saturated">>}

\* C10: Bounded blocking. Every synchronous invocation of the pipeline eventually
\* returns to its caller, even when the backend call in DIAGNOSE or RECOMMEND
\* never responds.
C10_BoundedBlocking == (pmode = "sync" /\ ppc # "idle") ~> (ppc = "idle")

\* a run is over and has handed a value to its caller
Finished == ppc = "idle" /\ pret # NoCall

\* C11: Recommendation cap. In every pipeline run, with or without a backend and
\* for any backend response text, the recommendations list produced by RECOMMEND
\* has at most 3 items, and it is empty whenever include_recommendations is false.
C11_RecommendationCap ==
    /\ "recommendations" \in DOMAIN pstate =>
          /\ Len(pstate.recommendations) <= 3
          /\ ~Get(pstate, "include_recommendations", FALSE) => pstate.recommendations = <<>>
    /\ (Finished /\ "recommendations" \in DOMAIN pret) =>
          /\ Len(pret.recommendations) <= 3
          /\ ~Get(pstate, "include_recommendations", FALSE) => pret.recommendations = <<>>

\* the backend has answered RECOMMEND with four steps and an empty line, and the
\* run has delivered three of them
C11_Witness ==
    /\ Finished
    /\ llm
    /\ "recommendations" \in DOMAIN pret
    /\ pret.recommendations = << <<"a">>, <<"b">>, <<"c">> >>

\* alert records that carry id, type, severity and a resource name
WellFormed(alert) ==
    /\ alert.kind = "dict"
    /\ {"id", "type", "severity", "resource"} \subseteq DOMAIN alert.d
    /\ alert.d.resource # PyNone

\* C12: End-to-end fallback. For any alert record with id, type, severity and a
\* resource name, run through the synchronous pipeline with no backend and with
\* recommendations requested, the result has root_cause.summary equal to the fixed
\* fallback sentence, root_cause.evidence equal to [alert type, error count
\* reported by ANALYZE_LOGS in this run, pod status reported by ENRICH in this
\* run], recommendations equal to the 3 fixed entries, and no error field.
C12_EndToEndFallback ==
    (/\ Finished
     /\ pmode = "sync"
     /\ ~llm
     /\ "alert" \in DOMAIN pstate
     /\ WellFormed(pstate.alert)
     /\ pstate.include_recommendations)
    => /\ "error" \notin DOMAIN pret
       /\ "root_cause" \in DOMAIN pret
       /\ pret.root_cause.summary = "Likely resource saturation or error spike in service"
       /\ pret.root_cause.evidence =
              << <<"Alert type", pstate.alert.d.type>>,
                 <<"Error count", pstate.logs.error_count>>,
                 <<"Pod status", pstate.pod_details.status>> >>
       /\ pret.recommendations =
              <<"Restart affected pod", "Check downstream dependencies",
                "Scale deployment if CPU is saturated">>

\* such a run is over, and its log analysis counted errors on a pod that is not running
C12_Witness ==
    /\ Finished
    /\ pmode = "sync"
    /\ ~llm
    /\ "logs" \in DOMAIN pstate
    /\ WellFormed(pstate.alert)
    /\ pstate.include_recommendations
    /\ pstate.logs.error_count > 0
    /\ pstate.pod_details.status = "CrashLoopBackOff"
    /\ "root_cause" \in DOMAIN pret

\* the structure of a root cause: its summary sentence and the names of its
\* evidence fields in order, without the interpolated values
Structure(root_cause) ==
    IF root_cause = None THEN None
    ELSE [summary |-> root_cause.summary,
          fields  |-> [i \in 1..Len(root_cause.evidence) |-> root_cause.evidence[i][1]]]

SameAlertAgain ==
    /\ Finished
    /\ ~llm
    /\ prev_run # None
    /\ "alert" \in DOMAIN pstate
    /\ pstate.alert = prev_run.alert

\* C13: Pipeline fallback determinism. With no backend configured, two runs of the
\* pipeline on the same input alert produce root causes of the same structure
\* (the same summary sentence and the same three evidence fields in the same
\* order); they may differ only in the interpolated values.
C13_FallbackDeterminism ==
    SameAlertAgain =>
        /\ Structure(Get(pret, "root_cause", None)) = Structure(prev_run.root_cause)
        /\ (Truthy(pstate.alert) /\ Get(pret, "root_cause", None) # None) =>
              Len(pret.root_cause.evidence) = 3

\* two runs on the same alert have produced root causes with different values
C13_Witness ==
    /\ SameAlertAgain
    /\ "root_cause" \in DOMAIN pret
    /\ prev_run.root_cause # None
    /\ pret.root_cause # prev_run.root_cause

\* a run whose alert was None or {} when it began has ended
MissingAlertRun == Finished /\ ~Truthy(Get(pstate, "alert", AbsentAlert))

\* C20: Missing alert. When the alert passed to analyze_incident_sync or
\* analyze_incident is absent or empty, the run goes directly to an error result
\* without executing ENRICH, ANALYZE_LOGS, DIAGNOSE or RECOMMEND; and inside
\* ENRICH a missing alert ends the run rather than letting later stages execute.
C20_MissingAlertEndsRun ==
    /\ (Finished /\ pstate = <<>>) =>
          /\ executed = <<>>
          /\ DOMAIN pret = {"error"}
    /\ MissingAlertRun =>
          /\ "error" \in DOMAIN pret
          /\ \A i \in 1..Len(executed) : executed[i] = "enrich_alert"
    /\ (ppc # "idle" /\ ~Truthy(Get(pstate, "alert", AbsentAlert))) =>
          ppc = "enrich_alert"

-----------------------------------------------------------------------------
(* mcp_server.call_tool: the tools that read or write metrics_history, and   *)
(* execute_runbook.  A handler has no await between its first and its last   *)
(* statement that another handler could run in, so each tool is one step.    *)

\* len(metrics_history[...]) > 100 and [-100:]; the ring is kept this short here
HISTORY_LIMIT == 2

\* the entries appended in one run of the server
MaxEntries == HISTORY_LIMIT + 1

\* if endpoint["latency_p95_ms"] > 1000
BOTTLENECK_LATENCY_MS == 1000

\* "Runbook identifier (e.g., restart-pod, scale-deployment, clear-cache)"
KnownRunbooks == {"restart-pod", "scale-deployment", "clear-cache"}

\* runbook_id arguments: one the tool description names, and one it does not
RunbookIdArgs == {"restart-pod", "no-such-runbook"}

\* parameters arguments: the default {} and a dict
ParameterArgs == {<<>>, [resource |-> "pod-x"]}

\* threshold arguments: "Severity threshold: high, medium, low"
ThresholdArgs == {"low", "medium", "high"}

\* [TextContent(type="text", text=json.dumps(value, indent=2))]: the text is the
\* value written out, from which the caller reads it back
TextContent(value) == <<[type |-> "text", json |-> value]>>

\* variant of execute_runbook that echoes parameters only when there are some
RunbookDroppingEmptyParameters(runbook_id, parameters, t) ==
    IF parameters = <<>>
    THEN [runbook_id  |-> runbook_id,
          status      |-> "completed",
          executed_at |-> isoformat(t),
          result      |-> "Runbook executed successfully (simulated)"]
    ELSE [runbook_id  |-> runbook_id,
          status      |-> "completed",
          parameters  |-> parameters,
          executed_at |-> isoformat(t),
          result      |-> "Runbook executed successfully (simulated)"]

\* IncidentResponseAgent.execute_runbook(runbook_id, parameters)
execute_runbook(runbook_id, parameters, t) ==
    [runbook_id  |-> runbook_id,
     status      |-> "completed",
     parameters  |-> parameters,
     executed_at |-> isoformat(t),
     result      |-> "Runbook executed successfully (simulated)"]

\* the findings of detect_bottlenecks for one gateway snapshot
Findings(data) ==
    LET slow == SelectSeq(data.endpoints, LAMBDA e : e.latency_p95_ms > BOTTLENECK_LATENCY_MS)
    IN [i \in 1..Len(slow) |->
           [type     |-> "api_latency",
            resource |-> slow[i].path,
            severity |-> "high",
            message  |-> <<"High p95 latency", slow[i].latency_p95_ms, "ms">>]]

\* variant of detect_bottlenecks that reads the first entry of the history
DetectOnOldestEntry(history, threshold) ==
    LET findings == IF Get(history, "api", <<>>) # <<>>
                    THEN Findings(history.api[1].data)
                    ELSE <<>>
    IN [threshold |-> threshold,
        findings  |-> findings,
        summary   |-> <<"Detected", Len(findings), "bottlenecks">>]

\* IncidentResponseAgent.detect_bottlenecks(metrics_history, threshold)
detect_bottlenecks(history, threshold) ==
    LET findings == IF Get(history, "api", <<>>) # <<>>
                    THEN Findings(history.api[Len(history.api)].data)
                    ELSE <<>>
    IN [threshold |-> threshold,
        findings  |-> findings,
        summary   |-> <<"Detected", Len(findings), "bottlenecks">>]

\* if len(h) > 100: h = h[-100:]
Trimmed(h) == IF Len(h) > HISTORY_LIMIT THEN LastEntries(h, HISTORY_LIMIT) ELSE h

\* metrics_history[category].append(entry), followed by the trim where the handler has one
Record(category, entry, trim) ==
    /\ Len(arrivals.k8s) + Len(arrivals.api) + Len(arrivals.alerts) < MaxEntries
    /\ metrics_history' = [metrics_history EXCEPT ![category] =
                              IF trim THEN Trimmed(Append(@, entry)) ELSE Append(@, entry)]
    /\ arrivals' = [arrivals EXCEPT ![category] = Append(@, entry)]

Reply(name, arguments, value) ==
    [tool |-> name, arguments |-> arguments, content |-> TextContent(value)]

\* name == "get_k8s_cluster_status"
SrvK8sClusterStatus ==
    /\ CallGetK8sMetrics
    /\ Record("k8s", [timestamp |-> isoformat(now), data |-> ret'], TRUE)
    /\ sret' = Reply("get_k8s_cluster_status", <<>>, ret')
    /\ UNCHANGED <<now, threadVars, pipeVars, logcall, listVars, agentVars>>

\* name == "get_api_gateway_metrics"
SrvApiGatewayMetrics ==
    /\ CallGetApiGatewayMetrics
    /\ Record("api", [timestamp |-> isoformat(now), data |-> ret'], TRUE)
    /\ sret' = Reply("get_api_gateway_metrics", <<>>, ret')
    /\ UNCHANGED <<now, threadVars, pipeVars, logcall, listVars, agentVars>>

\* name == "get_active_alerts": the count is appended and the list is never trimmed
SrvActiveAlerts ==
    /\ CallGetActiveAlerts
    /\ Record("alerts", [timestamp |-> isoformat(now), count |-> Len(ret'.alerts)], FALSE)
    /\ sret' = Reply("get_active_alerts", [severity |-> ret'.severity], ret')
    /\ UNCHANGED <<now, threadVars, pipeVars, logcall, listVars, agentVars>>

\* name == "execute_runbook"
SrvExecuteRunbook ==
    /\ \E runbook_id \in RunbookIdArgs, parameters \in ParameterArgs :
          sret' = Reply("execute_runbook",
                        [runbook_id |-> runbook_id, parameters |-> parameters],
                        execute_runbook(runbook_id, parameters, now))
    /\ UNCHANGED <<storeVars, threadVars, pipeVars, metrics_history, arrivals, logcall, listVars, agentVars>>

\* name == "get_performance_bottlenecks"
SrvPerformanceBottlenecks ==
    /\ \E threshold \in ThresholdArgs :
          sret' = Reply("get_performance_bottlenecks", [threshold |-> threshold],
                        detect_bottlenecks(metrics_history, threshold))
    /\ UNCHANGED <<storeVars, threadVars, pipeVars, metrics_history, arrivals, logcall, listVars, agentVars>>

ServerNext ==
    \/ SrvK8sClusterStatus \/ SrvApiGatewayMetrics \/ SrvActiveAlerts
    \/ SrvExecuteRunbook \/ SrvPerformanceBottlenecks

ServerSpec == Init /\ [][ServerNext]_vars

-----------------------------------------------------------------------------
(* Claims about the server tools *)

\* the tool the server ran last, and the value in its reply
LastTool == IF "tool" \in DOMAIN sret THEN sret.tool ELSE "none"

Result == sret.content[1].json

\* C14: Runbook execution. For every runbook id and every parameters value,
\* execute_runbook succeeds and returns a record with the given runbook id,
\* status "completed" and the parameters echoed unchanged, and the call changes
\* neither the alert store nor the metrics history.
C14_RunbookExecution ==
    /\ [](LastTool = "execute_runbook" =>
            /\ "error" \notin DOMAIN Result
            /\ {"runbook_id", "status", "parameters"} \subseteq DOMAIN Result
            /\ Result.runbook_id = sret.arguments.runbook_id
            /\ Result.status = "completed"
            /\ Result.parameters = sret.arguments.parameters)
    /\ [][LastTool' = "execute_runbook" =>
            /\ ACTIVE_ALERTS' = ACTIVE_ALERTS
            /\ metrics_history' = metrics_history]_vars

\* a runbook has been executed with the default parameters while the store holds
\* an alert and the history an entry
C14_Witness ==
    /\ LastTool = "execute_runbook"
    /\ sret.arguments.parameters = <<>>
    /\ ACTIVE_ALERTS # <<>>
    /\ metrics_history.api # <<>>

\* C15: Unknown runbook id. A call to execute_runbook with a runbook id that is
\* not a known runbook is reported to the caller as a structured error value,
\* not as a completed execution.
C15_UnknownRunbookIsError ==
    (LastTool = "execute_runbook" /\ sret.arguments.runbook_id \notin KnownRunbooks) =>
        /\ "error" \in DOMAIN Result
        /\ Get(Result, "status", "none") # "completed"

\* C16: Bottleneck detection. detect_bottlenecks returns one finding (type
\* api_latency, severity high, resource = endpoint path) for exactly each endpoint
\* of the most recent gateway entry whose latency_p95_ms > 1000, ignores older
\* entries, returns no findings when the gateway history is empty, reports a
\* count equal to the number of findings, and the findings do not depend on the
\* threshold argument.
C16_BottleneckDetection ==
    LastTool = "get_performance_bottlenecks" =>
        LET api == metrics_history.api
            findings == Result.findings
            latest == api[Len(api)].data.endpoints
        IN /\ api = <<>> => findings = <<>>
           /\ api # <<>> =>
                 /\ \A i \in 1..Len(latest) :
                        latest[i].latency_p95_ms > 1000 <=>
                            \E j \in 1..Len(findings) : findings[j].resource = latest[i].path
                 /\ \A j, k \in 1..Len(findings) :
                        findings[j].resource = findings[k].resource => j = k
                 /\ \A j \in 1..Len(findings) :
                        /\ findings[j].type = "api_latency"
                        /\ findings[j].severity = "high"
                        /\ \E i \in 1..Len(latest) : latest[i].path = findings[j].resource
           /\ Result.summary = <<"Detected", Len(findings), "bottlenecks">>
           /\ \A threshold \in ThresholdArgs :
                 detect_bottlenecks(metrics_history, threshold).findings = findings

\* the detector has run on a history whose older entry is slow and whose latest is not
C16_Witness ==
    /\ LastTool = "get_performance_bottlenecks"
    /\ Len(metrics_history.api) = 2
    /\ metrics_history.api[1].data.endpoints[1].latency_p95_ms > 1000
    /\ metrics_history.api[2].data.endpoints[1].latency_p95_ms <= 1000
    /\ Result.findings = <<>>

\* C17: Bounded history. After any sequence of server tool calls each of the three
\* metrics-history categories ("k8s", "api", "alerts") holds at most the ring
\* size of entries (100 in the code, HISTORY_LIMIT here), and they are the most
\* recent ones in arrival order.
C17_BoundedHistory ==
    \A category \in {"k8s", "api", "alerts"} :
        /\ Len(metrics_history[category]) <= HISTORY_LIMIT
        /\ metrics_history[category] = LastEntries(arrivals[category], HISTORY_LIMIT)

-----------------------------------------------------------------------------
(* get_cluster_logs called with any arguments (the get_pod_logs tool) *)

\* pod_name arguments: the default, a generated pod, a pod whose name holds "crash"
PodNameArgs == {"all", AllPodNames[1], "crashy-pod-1", "pod-x"}

\* lines arguments, below and above the 50 entries that are returned
LineArgs == {5, 10, 60}

\* severity arguments
LogSeverityArgs == {"all", "INFO", "WARN", "ERROR"}

\* get_cluster_logs(pod_name, lines, severity)
GetClusterLogs ==
    /\ \E pod_name \in PodNameArgs, lines \in LineArgs, severity \in LogSeverityArgs :
          \E sevs \in LogBatches(lines) :
              logcall' = [pod_name  |-> pod_name,
                          lines     |-> lines,
                          severity  |-> severity,
                          generated |-> sevs,
                          result    |-> get_cluster_logs(pod_name, lines, severity, sevs)]
    /\ UNCHANGED <<storeVars, threadVars, pipeVars, metrics_history, arrivals, sret, listVars, agentVars>>

LogNext == GetClusterLogs

LogSpec == Init /\ [][LogNext]_vars

-----------------------------------------------------------------------------
(* Claims about get_cluster_logs *)

\* the number of lines of a given severity among those the loop generated
Generated(sev) == Cardinality({k \in 1..logcall.lines : logcall.generated[k] = sev})

\* C18: Anomaly threshold. For every get_cluster_logs call with N requested lines,
\* any pod name and any severity filter, where E is the number of ERROR entries
\* of the generated batch, anomaly_detected is true if and only if E > 0.2 * N
\* (5 * E > N), and anomaly_description is non-null exactly when
\* anomaly_detected is true.
C18_AnomalyThreshold ==
    logcall # NoCall =>
        /\ logcall.result.anomaly_detected <=> 5 * Generated("ERROR") > logcall.lines
        /\ logcall.result.anomaly_description # None <=> logcall.result.anomaly_detected

\* C19: Log payload and counts. For every get_cluster_logs call the returned logs
\* list holds at most 50 entries and they are the most recent ones in order,
\* while error_count and warning_count equal the numbers of ERROR and WARN lines
\* in the full generated set of lines (not only the returned 50, and not only
\* the lines that pass the severity filter).
C19_PayloadAndCounts ==
    logcall # NoCall =>
        LET logs == logcall.result.logs
            passing == {k \in 1..logcall.lines :
                           logcall.severity = "all" \/ logcall.generated[k] = logcall.severity}
            returned == {logcall.lines - logs[j].seconds_ago + 1 : j \in 1..Len(logs)}
        IN /\ Len(logs) <= 50
           /\ \A i, j \in 1..Len(logs) : i < j => logs[i].seconds_ago > logs[j].seconds_ago
           /\ returned \subseteq passing
           /\ Cardinality(returned) = Len(logs)
           /\ Len(logs) < 50 => returned = passing
           /\ \A k \in passing \ returned : \A r \in returned : k < r
           /\ logcall.result.error_count = Generated("ERROR")
           /\ logcall.result.warning_count = Generated("WARN")

-----------------------------------------------------------------------------
(* Further claims about the handlers run one at a time *)

\* the alerts of the store that were not in it when the last call began
NewAlerts == SelectSeq(ACTIVE_ALERTS, LAMBDA a : ~InSeq(a, pre_alerts))

\* the pod (or endpoint) record of the last generator call for a resource
PodOf(r) == ret.pods[CHOOSE k \in 1..Len(ret.pods) : ret.pods[k].name = r]

EndpointOf(r) == ret.endpoints[CHOOSE k \in 1..Len(ret.endpoints) : ret.endpoints[k].path = r]

\* C23: Threshold rules. Every alert the generator inserts has the type and the
\* severity of the rule that fired: CrashLoopBackOff gives CrashLoop/critical,
\* also with cpu or memory > 90; cpu or memory > 90 alone gives
\* HighResourceUsage/warning; p95 > 1000 gives HighLatency/warning, also with
\* error rate > 3; error rate > 3 alone gives HighErrorRate/warning; nothing is
\* inserted without a breach.  In every store an alert is critical iff its type
\* is CrashLoop, and its status is "firing".
C23_ThresholdRules ==
    /\ \A i \in 1..Len(ACTIVE_ALERTS) :
          /\ ACTIVE_ALERTS[i].severity = "critical" <=> ACTIVE_ALERTS[i].type = "CrashLoop"
          /\ ACTIVE_ALERTS[i].severity \in {"critical", "warning"}
          /\ ACTIVE_ALERTS[i].status = "firing"
    /\ ret.op = "get_k8s_metrics" =>
          \A i \in 1..Len(NewAlerts) :
              LET a == NewAlerts[i]
                  pod == PodOf(a.resource)
              IN /\ a.resource \in BreachedByLastCall
                 /\ pod.status = "CrashLoopBackOff" =>
                        (a.type = "CrashLoop" /\ a.severity = "critical")
                 /\ pod.status # "CrashLoopBackOff" =>
                        (a.type = "HighResourceUsage" /\ a.severity = "warning")
    /\ ret.op = "get_api_gateway_metrics" =>
          \A i \in 1..Len(NewAlerts) :
              LET a == NewAlerts[i]
                  endpoint == EndpointOf(a.resource)
              IN /\ a.resource \in BreachedByLastCall
                 /\ a.severity = "warning"
                 /\ endpoint.latency_p95_ms > 1000 => a.type = "HighLatency"
                 /\ endpoint.latency_p95_ms <= 1000 => a.type = "HighErrorRate"
    /\ ret.op = "get_active_alerts" => NewAlerts = <<>>

\* a pod in CrashLoopBackOff with cpu above 90 has just received its alert
C23_Witness ==
    /\ ret.op = "get_k8s_metrics"
    /\ \E i \in 1..Len(NewAlerts) :
          /\ PodOf(NewAlerts[i].resource).status = "CrashLoopBackOff"
          /\ PodOf(NewAlerts[i].resource).cpu_usage_percent > 90

\* the number of returned alerts of a severity
ReturnedOfSeverity(severity) ==
    Cardinality({i \in 1..Len(ret.alerts) : ret.alerts[i].severity = severity})

\* C25: Consistent counts. In every result of get_active_alerts(severity),
\* total_alerts equals the length of the returned list, each of critical, warning
\* and info equals the number of returned alerts of that severity, and
\* critical + warning + info = total_alerts.
C25_ConsistentCounts ==
    ret.op = "get_active_alerts" =>
        /\ ret.total_alerts = Len(ret.alerts)
        /\ ret.critical = ReturnedOfSeverity("critical")
        /\ ret.warning = ReturnedOfSeverity("warning")
        /\ ret.info = ReturnedOfSeverity("info")
        /\ ret.critical + ret.warning + ret.info = ret.total_alerts

\* a list call has returned a critical and a warning alert together
C25_Witness ==
    /\ ret.op = "get_active_alerts"
    /\ ret.critical = 1
    /\ ret.warning = 1
    /\ ret.total_alerts = 2

\* alert identifiers that can be handed out
AlertIds == 1..MaxIds

Stored(id) == \E i \in 1..Len(ACTIVE_ALERTS) : ACTIVE_ALERTS[i].id = id

Overdue(id) ==
    \E i \in 1..Len(ACTIVE_ALERTS) :
        ACTIVE_ALERTS[i].id = id /\ Age(ACTIVE_ALERTS[i], now) >= 5

\* C28: Eventual expiry. A repeated breach never refreshes the timestamp of the
\* resource's existing alert; once an alert has reached the age of 5 minutes and
\* get_active_alerts keeps being called, the alert is eventually evicted, even
\* while its condition persists; and a new alert with a new id is inserted for a
\* resource only when the store holds no alert for it.
C28_EventualExpiry ==
    /\ [][\A i \in 1..Len(ACTIVE_ALERTS) :
            \A j \in 1..Len(ACTIVE_ALERTS') :
                ACTIVE_ALERTS'[j].id = ACTIVE_ALERTS[i].id =>
                    ACTIVE_ALERTS'[j] = ACTIVE_ALERTS[i]]_vars
    /\ [][\A j \in 1..Len(ACTIVE_ALERTS') :
            ~(\E i \in 1..Len(ACTIVE_ALERTS) : ACTIVE_ALERTS[i].id = ACTIVE_ALERTS'[j].id) =>
                /\ ~(\E i \in 1..Len(ACTIVE_ALERTS) :
                        ACTIVE_ALERTS[i].resource = ACTIVE_ALERTS'[j].resource)
                /\ ACTIVE_ALERTS'[j].id >= nextId]_vars
    /\ \A id \in AlertIds : Overdue(id) ~> ~Stored(id)

\* a generator call has met a breach on a resource whose alert is five minutes
\* old and not yet evicted, and has left the alert as it was
C28_Witness ==
    /\ ret.op \in {"get_k8s_metrics", "get_api_gateway_metrics"}
    /\ \E i \in 1..Len(pre_alerts) :
          /\ pre_alerts[i].resource \in BreachedByLastCall
          /\ Age(pre_alerts[i], CallTime) >= 5
          /\ InSeq(pre_alerts[i], ACTIVE_ALERTS)

-----------------------------------------------------------------------------
(* mcp_client.call_tool: the in-process facade.  Its callers are synchronous, *)
(* so a call runs to its end before the next one begins.                     *)

\* what call_tool(name, arguments) handed back
Called(name, arguments, value) == [tool |-> name, arguments |-> arguments, value |-> value]

\* the object that calling an async def yields while nobody awaits it
Coroutine(fn, args) == [coroutine |-> fn, args |-> args]

\* _diagnose_root_cause, the answer of the backend included
Diagnosed(state, backend, content) ==
    LET r == diagnose_root_cause(state, backend)
    IN IF r.done THEN r.state ELSE diagnose_with_response(r.state, content)

\* _recommend_actions, the answer of the backend included
Recommended(state, backend, content) ==
    LET r == recommend_actions(state, backend)
    IN IF r.done THEN r.state ELSE recommend_with_response(r.state, content)

\* analyze_incident_sync(alert, include_recommendations) with a backend that
\* answers, if there is one: the value returned, and the alert dict as the run
\* leaves it.  state["alert"] is the caller's dict, not a copy of it.
analyze_incident_sync(alert, include, d, restarts, sevs, backend, content) ==
    IF ~Truthy(alert)
    THEN [value |-> [error |-> "Missing alert payload"], alert |-> alert]
    ELSE LET state == [alert |-> alert, include_recommendations |-> include]
             r1 == enrich_alert(state, d, restarts)
             r2 == IF r1.raised THEN r1 ELSE analyze_logs(r1.state, sevs)
             r3 == IF r2.raised THEN r2 ELSE Returned(Diagnosed(r2.state, backend, content))
             r4 == IF r3.raised THEN r3 ELSE Returned(Recommended(r3.state, backend, content))
         IN [value |-> Delivered("sync", r4), alert |-> r4.state.alert]

\* what one run draws in get_pod_details and get_cluster_logs: a pod that is well
\* with quiet logs, and pods in trouble with restarts and errors in the logs
RunDraws ==
    {[d        |-> d,
      restarts |-> IF d.status = "CrashLoopBackOff" THEN 5 ELSE 0,
      sevs     |-> IF d.status = "CrashLoopBackOff"
                   THEN LogBatch(PIPELINE_LOG_LINES, PIPELINE_LOG_LINES \div 5 + 1, 0)
                   ELSE IF d.cpu > RESOURCE_LIMIT
                   THEN LogBatch(PIPELINE_LOG_LINES, PIPELINE_LOG_LINES \div 5, 3)
                   ELSE LogBatch(PIPELINE_LOG_LINES, 0, 0)] : d \in PodDraws}

\* the store after a run on the dict at position ref of ACTIVE_ALERTS; ref = 0
\* stands for a dict of the caller's own
StoreAfterRun(ref, alert) ==
    IF ref = 0 THEN ACTIVE_ALERTS ELSE [ACTIVE_ALERTS EXCEPT ![ref] = alert.d]

\* name == "get_k8s_cluster_status"
ClientK8sClusterStatus ==
    /\ CallGetK8sMetrics
    /\ cret' = Called("get_k8s_cluster_status", [namespace |-> "all"], ret')

\* name == "get_api_gateway_metrics"
ClientApiGatewayMetrics ==
    /\ CallGetApiGatewayMetrics
    /\ cret' = Called("get_api_gateway_metrics", [time_window |-> "5m"], ret')

\* name == "get_active_alerts"
ClientActiveAlerts ==
    /\ CallGetActiveAlerts
    /\ cret' = Called("get_active_alerts", [severity |-> ret'.severity], ret')

\* name == "analyze_incident", called with the dict at position ref of the store
\* (an element of the list get_active_alerts returned) or with a dict of the caller's
ClientAnalyzeIncident(ref, alert, include) ==
    /\ \E draw \in RunDraws, content \in IF llm THEN LlmContents ELSE {<<>>} :
          \E run \in {analyze_incident_sync(alert, include, draw.d, draw.restarts, draw.sevs,
                                            llm, content)} :
             /\ cret' = Called("analyze_incident",
                               [alert |-> alert, include_recommendations |-> include],
                               run.value)
             /\ ACTIVE_ALERTS' = StoreAfterRun(ref, run.alert)
    /\ UNCHANGED <<now, nextId, ret, pre_alerts>>

\* name == "execute_runbook": agent.execute_runbook is an async def, and the
\* facade returns what the call yields without awaiting it
ClientExecuteRunbook(runbook_id, parameters) ==
    /\ cret' = Called("execute_runbook",
                      [runbook_id |-> runbook_id, parameters |-> parameters],
                      Coroutine("execute_runbook", <<runbook_id, parameters>>))
    /\ UNCHANGED storeVars

\* the alert arguments of a caller: its own dicts, and the dicts of the store
ClientAlerts ==
    {[ref |-> 0, alert |-> a] : a \in AlertInputs}
    \cup {[ref |-> i, alert |-> [kind |-> "dict", d |-> ACTIVE_ALERTS[i]]] :
             i \in 1..Len(ACTIVE_ALERTS)}

CliK8sClusterStatus ==
    ClientK8sClusterStatus /\ UNCHANGED <<now, threadVars, pipeVars, toolVars, listVars, mainVars>>

CliApiGatewayMetrics ==
    ClientApiGatewayMetrics /\ UNCHANGED <<now, threadVars, pipeVars, toolVars, listVars, mainVars>>

CliActiveAlerts ==
    ClientActiveAlerts /\ UNCHANGED <<now, threadVars, pipeVars, toolVars, listVars, mainVars>>

CliAnalyzeIncident ==
    /\ \E a \in ClientAlerts, include \in BOOLEAN : ClientAnalyzeIncident(a.ref, a.alert, include)
    /\ UNCHANGED <<threadVars, pipeVars, toolVars, listVars, mainVars>>

CliExecuteRunbook ==
    /\ \E runbook_id \in RunbookIdArgs, parameters \in ParameterArgs :
          ClientExecuteRunbook(runbook_id, parameters)
    /\ UNCHANGED <<threadVars, pipeVars, toolVars, listVars, mainVars>>

FacadeNext ==
    \/ CliK8sClusterStatus \/ CliApiGatewayMetrics \/ CliActiveAlerts
    \/ CliAnalyzeIncident \/ CliExecuteRunbook

FacadeSpec == Init /\ [][FacadeNext]_vars

\* execute_runbook called through the facade and through the server, at any time
RunbookNext == Tick \/ CliExecuteRunbook \/ SrvExecuteRunbook

RunbookSpec == Init /\ [][RunbookNext]_vars

-----------------------------------------------------------------------------
(* Claims about the facade *)

\* the tool the facade ran last
LastClientTool == IF "tool" \in DOMAIN cret THEN cret.tool ELSE "none"

\* C21: Facade equivalence for execute_runbook. call_tool("execute_runbook",
\* {runbook_id, parameters}) through mcp_client returns the same execution record
\* (runbook_id, status = completed, parameters) that the server's execute_runbook
\* tool returns for the same arguments.
C21_FacadeEquivalence ==
    (/\ LastClientTool = "execute_runbook"
     /\ LastTool = "execute_runbook"
     /\ cret.arguments = sret.arguments) =>
        /\ {"runbook_id", "status", "parameters"} \subseteq DOMAIN cret.value
        /\ cret.value.runbook_id = Result.runbook_id
        /\ cret.value.status = Result.status
        /\ cret.value.parameters = Result.parameters

-----------------------------------------------------------------------------
(* get_active_alerts called from one more thread, next to the generators of  *)
(* ConcSpec.  The thread can be preempted between the end of the list       *)
(* comprehension and the assignment to the global.                          *)

\* [a for a in ACTIVE_ALERTS if datetime.fromisoformat(a["timestamp"]) > cutoff_time]
LFilter ==
    /\ lpc = "idle"
    /\ lkept' = Retained(ACTIVE_ALERTS, now)
    /\ lpc' = "filtered"
    /\ UNCHANGED <<storeVars, threadVars, pipeVars, toolVars, agentVars>>

\* ACTIVE_ALERTS = ...: the global is bound to the list that was built
LRebind ==
    /\ lpc = "filtered"
    /\ ACTIVE_ALERTS' = lkept
    /\ pre_alerts' = ACTIVE_ALERTS
    /\ lkept' = <<>>
    /\ lpc' = "rebound"
    /\ UNCHANGED <<now, nextId, ret, threadVars, pipeVars, toolVars, agentVars>>

\* the severity filter, the counts and the return
LReturn ==
    /\ lpc = "rebound"
    /\ \E severity \in SeverityArgs :
          LET filtered == Filtered(ACTIVE_ALERTS, severity)
          IN ret' = [op           |-> "get_active_alerts",
                     severity     |-> severity,
                     total_alerts |-> Len(filtered),
                     critical     |-> CountSeverity(filtered, "critical"),
                     warning      |-> CountSeverity(filtered, "warning"),
                     info         |-> CountSeverity(filtered, "info"),
                     alerts       |-> filtered,
                     timestamp    |-> isoformat(now)]
    /\ lpc' = "idle"
    /\ UNCHANGED <<now, ACTIVE_ALERTS, nextId, pre_alerts, lkept, threadVars, pipeVars,
                   toolVars, agentVars>>

ListNext == LFilter \/ LRebind \/ LReturn

EvictConcSpec == Init /\ [][ConcNext \/ ListNext]_vars

\* C22: No lost insert. When a generator call that inserts an alert runs
\* concurrently with a get_active_alerts call, insert and eviction are atomic with
\* respect to each other: once the calls are over, every alert whose insert
\* completed and that has not expired is in the store, and so is returned by the
\* next list call.  (No time passes in these runs, so no alert expires.)
C22_NoLostInsert ==
    (lpc = "idle" /\ \A t \in Threads : tpc[t].at = "idle") =>
        \A id \in 1..(nextId - 1) : Stored(id)

-----------------------------------------------------------------------------
(* automation_agent: main polls the store through the facade and pushes every *)
(* new alert through handle_alert.  Agent and store live in one process and   *)
(* one thread: once main has been entered, the store changes only through the *)
(* agent's own calls.  What the generators did before is in the store when    *)
(* main begins.                                                               *)

CRITICAL_ACTIONS == {"CrashLoop", "HighErrorRate", "HighLatency", "HighResourceUsage"}

\* "lines": 120 in handle_alert
AGENT_LOG_LINES == 120

\* the statements of handle_alert that call a tool, in program order
HandleSteps ==
    <<"get_k8s_cluster_status", "get_pod_logs", "analyze_incident", "execute_runbook">>

\* variant of SameList in which the result holds a list of its own
AlwaysCopy(severity) == FALSE

\* else: filtered = ACTIVE_ALERTS: with "all" the list in the result is the store's list
SameList(severity) == severity = "all"

\* the list the for loop walks, once a call of the agent has written to the store
LoopList(store) == IF SameList("all") THEN store ELSE loop_alerts

\* variant of ShouldHandle that does not look into seen
HandleWheneverListed(alert, seen_ids) == "id" \in DOMAIN alert

\* alert_id = alert.get("id"); if alert_id and alert_id not in seen
ShouldHandle(alert, seen_ids) == "id" \in DOMAIN alert /\ alert.id \notin seen_ids

\* position in the store of the dict handle_alert works on, 0 when it is no longer there
StorePosition(alert) ==
    IF \E i \in 1..Len(ACTIVE_ALERTS) : ACTIVE_ALERTS[i].id = alert.id
    THEN CHOOSE i \in 1..Len(ACTIVE_ALERTS) : ACTIVE_ALERTS[i].id = alert.id
    ELSE 0

Event(step) == [id |-> handled_alert.id, step |-> step]

\* the generators are called before main is entered
EnvK8sMetrics == apc = "off" /\ GetK8sMetrics

EnvApiGatewayMetrics == apc = "off" /\ GetApiGatewayMetrics

\* seen: Set[str] = set()
MainStart ==
    /\ apc = "off"
    /\ seen' = {}
    /\ apc' = "poll"
    /\ UNCHANGED <<storeVars, threadVars, pipeVars, toolVars, listVars, cret,
                   loop_alerts, idx, handled_alert, trace, polled, mark>>

\* alerts = call_tool("get_active_alerts", {"severity": "all"}).get("alerts", [])
MainPoll ==
    /\ apc = "poll"
    /\ ClientActiveAlerts
    /\ ret'.severity = "all"
    /\ loop_alerts' = ret'.alerts
    /\ polled' = ret'.alerts
    /\ mark' = Len(trace)
    /\ idx' = 1
    /\ apc' = "for"
    /\ UNCHANGED <<now, threadVars, pipeVars, toolVars, listVars, seen, handled_alert, trace>>

\* for alert in alerts: one step of the iterator and the test of the loop body
MainFor ==
    /\ apc = "for"
    /\ IF idx > Len(loop_alerts)
       THEN apc' = "sleep" /\ UNCHANGED <<idx, seen, handled_alert>>
       ELSE /\ idx' = idx + 1
            /\ IF ShouldHandle(loop_alerts[idx], seen)
               THEN /\ seen' = seen \cup {loop_alerts[idx].id}
                    /\ handled_alert' = loop_alerts[idx]
                    /\ apc' = HandleSteps[1]
               ELSE UNCHANGED <<seen, handled_alert, apc>>
    /\ UNCHANGED <<storeVars, threadVars, pipeVars, toolVars, listVars, cret,
                   loop_alerts, trace, polled, mark>>

\* cluster = call_tool("get_k8s_cluster_status", {"namespace": "all"})
HandleK8s ==
    /\ apc = "get_k8s_cluster_status"
    /\ ClientK8sClusterStatus
    /\ loop_alerts' = LoopList(ACTIVE_ALERTS')
    /\ trace' = Append(trace, Event("get_k8s_cluster_status"))
    /\ apc' = "get_pod_logs"
    /\ UNCHANGED <<now, threadVars, pipeVars, toolVars, listVars, seen, idx, handled_alert,
                   polled, mark>>

\* logs = call_tool("get_pod_logs", {"pod_name": ..., "lines": 120, "severity": "all"})
HandleLogs ==
    /\ apc = "get_pod_logs"
    /\ \E sevs \in LogBatches(AGENT_LOG_LINES) :
          cret' = Called("get_pod_logs",
                         [pod_name |-> handled_alert.resource, lines |-> AGENT_LOG_LINES,
                          severity |-> "all"],
                         get_cluster_logs(handled_alert.resource, AGENT_LOG_LINES, "all", sevs))
    /\ trace' = Append(trace, Event("get_pod_logs"))
    /\ apc' = "analyze_incident"
    /\ UNCHANGED <<storeVars, threadVars, pipeVars, toolVars, listVars, seen, loop_alerts, idx,
                   handled_alert, polled, mark>>

\* analysis = call_tool("analyze_incident", {"alert": alert, "include_recommendations": True})
HandleAnalyze ==
    /\ apc = "analyze_incident"
    /\ \E ref \in {StorePosition(handled_alert)} :
          /\ ClientAnalyzeIncident(ref, [kind |-> "dict", d |-> handled_alert], TRUE)
          /\ handled_alert' = IF ref = 0 THEN handled_alert ELSE ACTIVE_ALERTS'[ref]
    /\ loop_alerts' = [i \in 1..Len(loop_alerts) |->
                          IF loop_alerts[i].id = handled_alert.id
                          THEN handled_alert' ELSE loop_alerts[i]]
    /\ trace' = Append(trace, Event("analyze_incident"))
    /\ apc' = "execute_runbook"
    /\ UNCHANGED <<threadVars, pipeVars, toolVars, listVars, seen, idx, polled, mark>>

\* if alert.get("severity") == "critical" or alert.get("type") in CRITICAL_ACTIONS: ...
HandleRunbook ==
    /\ apc = "execute_runbook"
    /\ IF handled_alert.severity = "critical" \/ handled_alert.type \in CRITICAL_ACTIONS
       THEN /\ ClientExecuteRunbook("restart-pod", [resource |-> handled_alert.resource])
            /\ trace' = Append(trace, Event("execute_runbook"))
       ELSE UNCHANGED <<storeVars, cret, trace>>
    /\ apc' = "for"
    /\ UNCHANGED <<threadVars, pipeVars, toolVars, listVars, seen, loop_alerts, idx,
                   handled_alert, polled, mark>>

\* the clock advances while the agent is in time.sleep; a pass takes no time
SleepTick == apc = "sleep" /\ Tick

\* time.sleep(POLL_INTERVAL_SECS) is over: back to the head of the while loop
MainSleep ==
    /\ apc = "sleep"
    /\ apc' = "poll"
    /\ UNCHANGED <<storeVars, threadVars, pipeVars, toolVars, listVars, cret, seen,
                   loop_alerts, idx, handled_alert, trace, polled, mark>>

AgentNext ==
    \/ SleepTick \/ EnvK8sMetrics \/ EnvApiGatewayMetrics
    \/ MainStart \/ MainPoll \/ MainFor
    \/ HandleK8s \/ HandleLogs \/ HandleAnalyze \/ HandleRunbook
    \/ MainSleep

AgentSpec == Init /\ [][AgentNext]_vars

-----------------------------------------------------------------------------
(* Claims about the automation agent *)

StepNo(step) == CHOOSE k \in 1..Len(HandleSteps) : HandleSteps[k] = step

\* the alert id went through analyze_incident after the last poll had returned
HandledInThisPass(id) ==
    \E j \in (mark + 1)..Len(trace) : trace[j].id = id /\ trace[j].step = "analyze_incident"

SeenBeforeThisPass(id) == \E j \in 1..mark : trace[j].id = id

\* C24: Poller. Across any number of poll iterations each alert id is pushed
\* through handle_alert at most once; alerts are handled strictly one after
\* another, each handling calling get_k8s_cluster_status, get_pod_logs,
\* analyze_incident and then execute_runbook in this order, the runbook only
\* after analyze_incident has returned; and when the poller goes to sleep, every
\* alert the poll returned that had not been seen before has been handled in
\* that poll.
C24_Poller ==
    /\ \A i, j \in 1..Len(trace) : i < j => trace[i] # trace[j]
    /\ trace # <<>> => trace[1].step = HandleSteps[1]
    /\ \A i \in 1..(Len(trace) - 1) :
          IF trace[i + 1].id = trace[i].id
          THEN StepNo(trace[i + 1].step) = StepNo(trace[i].step) + 1
          ELSE /\ trace[i + 1].step = HandleSteps[1]
               /\ StepNo(trace[i].step) >= StepNo("analyze_incident")
    /\ apc = "sleep" =>
          \A k \in 1..Len(polled) :
              ~SeenBeforeThisPass(polled[k].id) => HandledInThisPass(polled[k].id)

\* the poller goes to sleep after a pass in which every alert the poll returned
\* had been handled in an earlier pass
C24_Witness ==
    /\ apc = "sleep"
    /\ polled # <<>>
    /\ mark = Len(trace)
    /\ \A k \in 1..Len(polled) : SeenBeforeThisPass(polled[k].id)

\* C27: Result aliasing in the poll pass. get_active_alerts("all") returns the
\* store's own list, so the list the poll loop walks is the store at every point
\* of the pass, and an alert that the agent's get_k8s_cluster_status call inserts
\* inside handle_alert is handled within that same pass, before the poller sleeps.
C27_SamePassHandling ==
    /\ apc \notin {"off", "poll"} => loop_alerts = ACTIVE_ALERTS
    /\ apc = "sleep" =>
          \A i \in 1..Len(ACTIVE_ALERTS) :
              ~InSeq(ACTIVE_ALERTS[i], polled) => HandledInThisPass(ACTIVE_ALERTS[i].id)

\* the poller goes to sleep with an alert in the store that the poll did not return
C27_Witness ==
    /\ apc = "sleep"
    /\ \E i \in 1..Len(ACTIVE_ALERTS) : ~InSeq(ACTIVE_ALERTS[i], polled)

====
